---------------------------- MODULE Spec2Model ----------------------------
(***************************************************************************)
(* Model of provider-list.py: the per-URL loop of main() (fetch, extract,  *)
(* append, pause, final summary), the reconciliation done at the end of    *)
(* extract_provider_data(), and the heuristics of parse_provider_page()    *)
(* (education heading choice, last-modified date) together with the        *)
(* assembly of the page content that goes into the prompt.                 *)
(*                                                                         *)
(* Texts are modelled as sequences of tokens.  A completion text is a      *)
(* sequence over CompletionAlphabet; a page text is a sequence of labels,  *)
(* separators, dates and other words.  Section texts whose only use is     *)
(* their length are modelled by their length.                              *)
(***************************************************************************)
EXTENDS Integers, Sequences, FiniteSets, TLC

\* ------------------------------------------------------------------ bounds
MaxUrls == 3
MaxLen == 3
MaxHeadings == 3
MaxPhrases == 2
MaxTextLen == 30000

\* ------------------------------------------------------- program constants
content_limit == 12000
min_section_len == 50
edu_banner_len == 57
details_banner_len == 33
full_banner_len == 26
section_gap_len == 2

\* --------------------------------------------------------------- variables
VARIABLES
    urls,           \* main: the list load_urls() returned
    i,              \* main: number of URLs whose loop iteration has finished
    pc,             \* main: position in main()
    content,        \* main: result of fetch_page_content for the current URL
    provider_data,  \* main: result of extract_provider_data for the current URL
    csv_header,     \* the header row of the output CSV, None before the file exists
    rows,           \* the data rows of the output CSV, in file order
    failed_urls,    \* main: failed_urls
    successful,     \* main: successful
    progress,       \* the progress lines printed by print_progress
    slept,          \* time.sleep(0.5) ran since the last progress line
    summary,        \* the final statistics printed so far
    fatal,          \* the uncaught exception that ended main(), or "none"
    r_in,           \* extract_provider_data: [response, last_modified, url]
    r_out,          \* extract_provider_data: value returned, or Unset
    headings,       \* parse_provider_page: texts of the h2..h6 in document order
    edu_heading,    \* parse_provider_page: edu_heading (None, a heading, or Unset)
    page,           \* parse_provider_page: the page whose date is looked up
    last_modified,  \* parse_provider_page: last_modified, or Unset
    sections,       \* extract_provider_data: lengths of the sections found
    focused_content \* extract_provider_data: layout of focused_content, or Unset

mainVars == <<urls, i, pc, content, provider_data, csv_header, rows, failed_urls,
              successful, progress, slept, summary, fatal>>
reconcileVars == <<r_in, r_out>>
headingVars == <<headings, edu_heading>>
dateVars == <<page, last_modified>>
promptVars == <<sections, focused_content>>
functionVars == <<reconcileVars, headingVars, dateVars, promptVars>>
vars == <<mainVars, functionVars>>

\* ----------------------------------------------------------------- helpers
None == [kind |-> "None"]
Unset == [kind |-> "unset"]

RECURSIVE SeqsUpTo(_, _)
SeqsUpTo(S, n) ==
    IF n = 0 THEN {<<>>}
    ELSE LET shorter == SeqsUpTo(S, n - 1)
         IN shorter \cup {Append(s, x) : s \in {t \in shorter : Len(t) = n - 1}, x \in S}

Range(s) == {s[k] : k \in DOMAIN s}

Put(d, key, value) ==
    [x \in (DOMAIN d) \cup {key} |-> IF x = key THEN value ELSE d[x]]

Get(d, key, default) == IF key \in DOMAIN d THEN d[key] ELSE default

EmptyDict == [x \in {} |-> ""]

\* ------------------------------------------------ the data main() handles
URLs == {"u1", "u2", "u3"}

fieldnames ==
    <<"Name", "Credentials", "Titles", "Specialty", "Locations",
      "Areas of Clinical Practice", "Diseases Treated", "Languages",
      "Undergraduate Degree", "Medical Degree", "Residency", "Fellowship",
      "Board Certifications", "Awards", "Other", "Profile URL", "Last Modified">>

\* A lone surrogate, which json.loads accepts from the escape \ud800 and the
\* utf-8 encoder of the output file rejects.
LoneSurrogate == "<U+D800>"

\* Tokens of a completion text: the two braces, two well-formed JSON members
\* ("m" is "Last Modified": "unknown", "s" is "Name": "\ud800") and "x", any
\* text that is neither a brace nor part of a JSON value.
CompletionAlphabet == {"{", "}", "m", "s", "x"}
Members == {"m", "s"}
MemberKey(t) == IF t = "m" THEN "Last Modified" ELSE "Name"
MemberValue(t) == IF t = "m" THEN "unknown" ELSE LoneSurrogate

Completions == SeqsUpTo(CompletionAlphabet, MaxLen)

\* What requests.post(...) and the reading of choices[0].message.content give.
Responses ==
    {[kind |-> "RequestException"], [kind |-> "Exception"]}
    \cup {[kind |-> "ok", content |-> c] : c \in Completions}

\* ------------------------------------------------------ page text and dates
MonthDates == {"July 25, 2024", "May 1, 2023"}
SlashDates == {"7/25/2024"}
IsoDates == {"2024-07-25"}
Dates == MonthDates \cup SlashDates \cup IsoDates
Labels == <<"last modified", "last updated", "modified", "updated">>
Separator == ":"

\* A phrase of the page text: a label, sep separators, a date.
Phrases == [label : Range(Labels), sep : 0..1, date : Dates]

PhraseTokens(ph) ==
    <<ph.label>> \o (IF ph.sep = 0 THEN <<>> ELSE <<Separator>>) \o <<ph.date>>

RECURSIVE Flatten(_)
Flatten(phs) ==
    IF phs = <<>> THEN <<>> ELSE PhraseTokens(Head(phs)) \o Flatten(Tail(phs))

BodyTexts == {Flatten(phs) : phs \in SeqsUpTo(Phrases, MaxPhrases)}

\* A footer element's text: none or dateless, or one holding a date.
FooterTexts == {<<>>, <<"x">>, <<"x", "2020-01-31">>}
FooterDates == {"2020-01-31"}

Pages == [footer : FooterTexts, body : BodyTexts]

\* The pages the fetcher hands to main() in the pipeline specification.
FetchedPages ==
    {[footer |-> <<>>, body |-> <<>>],
     [footer |-> <<"x", "2020-01-31">>, body |-> <<>>],
     [footer |-> <<"x">>, body |-> <<"last modified", ":", "July 25, 2024">>]}

\* ----------------------------------- parse_provider_page: education heading
\* A heading is modelled by the set of keywords its lower-cased text contains.
Keywords == {"education", "experience", "certification"}
HeadingTexts == SUBSET Keywords
HeadingLists == SeqsUpTo(HeadingTexts, MaxHeadings)

Heading(k) == [kind |-> "heading", index |-> k]

\* The for loop of lines 108-115 from the k-th heading on.
RECURSIVE ScanHeadings(_, _)
ScanHeadings(hs, k) ==
    IF k > Len(hs) THEN None
    ELSE IF "education" \in hs[k]
            /\ ("experience" \in hs[k] \/ "certification" \in hs[k])
         THEN Heading(k)
    ELSE IF "education" \in hs[k] THEN Heading(k)
    ELSE ScanHeadings(hs, k + 1)

FindEduHeading(hs) == ScanHeadings(hs, 1)

\* ----------------------------------- parse_provider_page: last modified date
IsDate(t) == t \in Dates \cup FooterDates

\* re.search of the footer pattern: the leftmost date-shaped token, "" if none.
RECURSIVE FirstDate(_)
FirstDate(text) ==
    IF text = <<>> THEN ""
    ELSE IF IsDate(Head(text)) THEN Head(text)
    ELSE FirstDate(Tail(text))

\* The six patterns of the fallback scan, in list order: the label each one
\* starts with and the date shapes its group accepts.
patterns ==
    <<[label |-> "last modified", dates |-> MonthDates],
      [label |-> "last updated", dates |-> MonthDates],
      [label |-> "modified", dates |-> MonthDates],
      [label |-> "updated", dates |-> MonthDates],
      [label |-> "last modified", dates |-> SlashDates],
      [label |-> "last modified", dates |-> IsoDates]>>

\* The text of token tok ends with the text of label.
EndsWithLabel(tok, label) ==
    \/ tok = label
    \/ tok = "last modified" /\ label = "modified"
    \/ tok = "last updated" /\ label = "updated"

\* Position after the run of separators that starts at k.
RECURSIVE SkipSeparators(_, _)
SkipSeparators(text, k) ==
    IF k <= Len(text) /\ text[k] = Separator THEN SkipSeparators(text, k + 1) ELSE k

\* The pattern matches with its label at token k: label, one or more
\* separators, a date of an accepted shape.  Gives the group, "" for no match.
MatchAt(pattern, text, k) ==
    IF ~EndsWithLabel(text[k], pattern.label) THEN ""
    ELSE LET d == SkipSeparators(text, k + 1)
         IN IF d > k + 1 /\ d <= Len(text) /\ text[d] \in pattern.dates
            THEN text[d] ELSE ""

\* re.search(pattern, full_text, re.IGNORECASE): the leftmost match's group.
RECURSIVE SearchFrom(_, _, _)
SearchFrom(pattern, text, k) ==
    IF k > Len(text) THEN ""
    ELSE IF MatchAt(pattern, text, k) # "" THEN MatchAt(pattern, text, k)
    ELSE SearchFrom(pattern, text, k + 1)

Search(pattern, text) == SearchFrom(pattern, text, 1)

\* The for loop of lines 182-186 from the n-th pattern on.
RECURSIVE ScanPatterns(_, _)
ScanPatterns(text, n) ==
    IF n > Len(patterns) THEN ""
    ELSE IF Search(patterns[n], text) # "" THEN Search(patterns[n], text)
    ELSE ScanPatterns(text, n + 1)

\* soup.get_text(): the text of the whole page, its footer included.
FullPageText(html) == html.body \o html.footer

FindLastModified(html) ==
    IF FirstDate(html.footer) # "" THEN FirstDate(html.footer)
    ELSE ScanPatterns(FullPageText(html), 1)

ParseProviderPage(html) == [last_modified |-> FindLastModified(html)]

\* -------------------------------- extract_provider_data: the prompt content
SectionLens ==
    {0, min_section_len, min_section_len + 1, content_limit, content_limit + 1,
     MaxTextLen}

\* A sections dict by the lengths of its texts; full_text is always present.
SectionDicts ==
    UNION {[{"full_text"} \cup opt -> SectionLens] :
           opt \in SUBSET {"education_section", "provider_details"}}

Min(a, b) == IF a < b THEN a ELSE b

\* sections.get(name) and len(sections[name]) > 50
Included(secs, name) ==
    name \in DOMAIN secs /\ secs[name] # 0 /\ secs[name] > min_section_len

\* focused_content as the list of its parts, each with its length.
BuildFocusedContent(secs) ==
    (IF Included(secs, "education_section")
     THEN <<[part |-> "education banner", len |-> edu_banner_len],
            [part |-> "education_section",
             len |-> secs["education_section"] + section_gap_len]>>
     ELSE <<>>)
    \o (IF Included(secs, "provider_details")
        THEN <<[part |-> "details banner", len |-> details_banner_len],
               [part |-> "provider_details",
                len |-> secs["provider_details"] + section_gap_len]>>
        ELSE <<>>)
    \o <<[part |-> "full banner", len |-> full_banner_len],
         [part |-> "full_text", len |-> Min(secs["full_text"], content_limit)]>>

RECURSIVE TotalLen(_)
TotalLen(parts) ==
    IF parts = <<>> THEN 0 ELSE Head(parts).len + TotalLen(Tail(parts))

\* ------------------------- extract_provider_data: completion, reconciliation
\* str.find and str.rfind, with Python's 0-based result and -1 for absent.
RECURSIVE FindFrom(_, _, _)
FindFrom(text, c, k) ==
    IF k > Len(text) THEN -1
    ELSE IF text[k] = c THEN k - 1
    ELSE FindFrom(text, c, k + 1)

Find(text, c) == FindFrom(text, c, 1)

RECURSIVE RFindFrom(_, _, _)
RFindFrom(text, c, k) ==
    IF k < 1 THEN -1
    ELSE IF text[k] = c THEN k - 1
    ELSE RFindFrom(text, c, k - 1)

RFind(text, c) == RFindFrom(text, c, Len(text))

\* text[start:end] of Python
Slice(text, start, end) == SubSeq(text, start + 1, end)

\* json.loads on a token text: over this alphabet the only JSON documents are
\* the empty object and an object of one member; anything else raises
\* JSONDecodeError, modelled by None.
JsonLoads(json_str) ==
    IF json_str = <<"{", "}">> THEN EmptyDict
    ELSE IF Len(json_str) = 3 /\ json_str[1] = "{" /\ json_str[2] \in Members
            /\ json_str[3] = "}"
         THEN Put(EmptyDict, MemberKey(json_str[2]), MemberValue(json_str[2]))
    ELSE None

\* Lines 279-282: the text from the first "{" to the last "}", None when
\* there is no such span.
JsonSpan(llm_content) ==
    LET start_idx == Find(llm_content, "{")
        end_idx == RFind(llm_content, "}") + 1
    IN IF start_idx >= 0 /\ end_idx > start_idx
       THEN Slice(llm_content, start_idx, end_idx)
       ELSE None

\* A plausible slip: the model's own date is kept whenever it gave one.
ReconcileModelWins(data, url, heuristic_date) ==
    LET with_url == Put(data, "Profile URL", url)
    IN IF "Last Modified" \in DOMAIN with_url THEN with_url
       ELSE Put(with_url, "Last Modified", heuristic_date)

\* A plausible slip: the URL is not laid over the parsed object.
ReconcileWithoutUrl(data, url, heuristic_date) ==
    IF heuristic_date # "" THEN Put(data, "Last Modified", heuristic_date)
    ELSE IF "Last Modified" \notin DOMAIN data THEN Put(data, "Last Modified", "")
    ELSE data

\* Lines 285-292: the URL and the heuristic date laid over the parsed object.
Reconcile(data, url, heuristic_date) ==
    LET with_url == Put(data, "Profile URL", url)
    IN IF heuristic_date # "" THEN Put(with_url, "Last Modified", heuristic_date)
       ELSE IF "Last Modified" \notin DOMAIN with_url
            THEN Put(with_url, "Last Modified", "")
       ELSE with_url

\* Lines 269-301: the value extract_provider_data returns for a response.
ReadCompletion(response, url, heuristic_date) ==
    IF response.kind # "ok" THEN None
    ELSE LET json_str == JsonSpan(response.content)
         IN IF json_str = None THEN None
            ELSE LET data == JsonLoads(json_str)
                 IN IF data = None THEN None
                    ELSE Reconcile(data, url, heuristic_date)

ExtractProviderData(html, url, response) ==
    ReadCompletion(response, url, ParseProviderPage(html).last_modified)

\* ------------------------------------------------------------ append_to_csv
Row(data) == [field \in Range(fieldnames) |-> Get(data, field, "")]

\* The utf-8 encoder of the output file accepts every value of the row.
Encodable(row) == \A field \in DOMAIN row : row[field] # LoneSurrogate

\* ------------------------------------------------------------------ main()
UrlLists == SeqsUpTo(URLs, MaxUrls)

InitMain ==
    /\ urls = <<>>
    /\ i = 0
    /\ pc = "load_urls"
    /\ content = None
    /\ provider_data = None
    /\ csv_header = None
    /\ rows = <<>>
    /\ failed_urls = <<>>
    /\ successful = 0
    /\ progress = <<>>
    /\ slept = FALSE
    /\ summary = <<>>
    /\ fatal = "none"

\* load_urls returns the stripped non-blank lines of the file.
LoadUrls ==
    /\ pc = "load_urls"
    /\ \E list \in UrlLists : urls' = list
    /\ pc' = "write_csv_header"
    /\ UNCHANGED <<i, content, provider_data, csv_header, rows, failed_urls,
                   successful, progress, slept, summary, fatal>>
    /\ UNCHANGED functionVars

\* load_urls cannot read the file: sys.exit(1).
LoadUrlsExits ==
    /\ pc = "load_urls"
    /\ pc' = "exited"
    /\ fatal' = "SystemExit(1)"
    /\ UNCHANGED <<urls, i, content, provider_data, csv_header, rows, failed_urls,
                   successful, progress, slept, summary>>
    /\ UNCHANGED functionVars

WriteCsvHeader ==
    /\ pc = "write_csv_header"
    /\ csv_header' = fieldnames
    /\ rows' = <<>>
    /\ successful' = 0
    /\ failed_urls' = <<>>
    /\ pc' = "fetch"
    /\ UNCHANGED <<urls, i, content, provider_data, progress, slept, summary, fatal>>
    /\ UNCHANGED functionVars

ProgressLine(url, success) ==
    [current |-> i + 1, total |-> Len(urls), url |-> url, success |-> success]

\* A plausible slip: the failure is printed but the URL is not recorded.
RecordFailureDropsUrl(url) ==
    /\ progress' = Append(progress, ProgressLine(url, FALSE))
    /\ slept' = FALSE
    /\ i' = i + 1
    /\ pc' = "fetch"
    /\ content' = None
    /\ provider_data' = None
    /\ UNCHANGED <<urls, csv_header, rows, failed_urls, successful, summary, fatal>>
    /\ UNCHANGED functionVars

\* Lines 359-362 and 367-370: record the failure, print it, continue.
RecordFailure(url) ==
    /\ failed_urls' = Append(failed_urls, url)
    /\ progress' = Append(progress, ProgressLine(url, FALSE))
    /\ slept' = FALSE
    /\ i' = i + 1
    /\ pc' = "fetch"
    /\ content' = None
    /\ provider_data' = None
    /\ UNCHANGED <<urls, csv_header, rows, successful, summary, fatal>>
    /\ UNCHANGED functionVars

\* fetch_page_content returns None.
FetchFails ==
    /\ pc = "fetch"
    /\ i < Len(urls)
    /\ RecordFailure(urls[i + 1])

\* fetch_page_content returns the page text.
FetchSucceeds ==
    /\ pc = "fetch"
    /\ i < Len(urls)
    /\ \E html \in FetchedPages : content' = html
    /\ pc' = "extract"
    /\ UNCHANGED <<urls, i, provider_data, csv_header, rows, failed_urls,
                   successful, progress, slept, summary, fatal>>
    /\ UNCHANGED functionVars

\* The values extract_provider_data can return for a page and a URL, over
\* every response of the completion service.
ExtractionResults ==
    [html \in FetchedPages, url \in URLs |->
        {ExtractProviderData(html, url, response) : response \in Responses}]

\* extract_provider_data returns None.
ExtractFails ==
    /\ pc = "extract"
    /\ None \in ExtractionResults[content, urls[i + 1]]
    /\ RecordFailure(urls[i + 1])

\* extract_provider_data returns a record.
ExtractSucceeds ==
    /\ pc = "extract"
    /\ \E data \in ExtractionResults[content, urls[i + 1]] \ {None} :
           provider_data' = data
    /\ pc' = "append_to_csv"
    /\ UNCHANGED <<urls, i, content, csv_header, rows, failed_urls,
                   successful, progress, slept, summary, fatal>>
    /\ UNCHANGED functionVars

\* A plausible slip: the file is opened with mode 'w' and so truncated.
AppendToCsvTruncates ==
    /\ pc = "append_to_csv"
    /\ Encodable(Row(provider_data))
    /\ rows' = <<Row(provider_data)>>
    /\ successful' = successful + 1
    /\ progress' = Append(progress, ProgressLine(urls[i + 1], TRUE))
    /\ slept' = FALSE
    /\ pc' = "sleep"
    /\ UNCHANGED <<urls, i, content, provider_data, csv_header, failed_urls,
                   summary, fatal>>
    /\ UNCHANGED functionVars

\* Lines 373-375: the row is appended, counted and reported.
AppendToCsv ==
    /\ pc = "append_to_csv"
    /\ Encodable(Row(provider_data))
    /\ rows' = Append(rows, Row(provider_data))
    /\ successful' = successful + 1
    /\ progress' = Append(progress, ProgressLine(urls[i + 1], TRUE))
    /\ slept' = FALSE
    /\ pc' = "sleep"
    /\ UNCHANGED <<urls, i, content, provider_data, csv_header, failed_urls,
                   summary, fatal>>
    /\ UNCHANGED functionVars

\* writer.writerow raises UnicodeEncodeError before any byte of the row is
\* written; nothing in main() catches it.
AppendToCsvRaises ==
    /\ pc = "append_to_csv"
    /\ ~Encodable(Row(provider_data))
    /\ pc' = "crashed"
    /\ fatal' = "UnicodeEncodeError"
    /\ UNCHANGED <<urls, i, content, provider_data, csv_header, rows, failed_urls,
                   successful, progress, slept, summary>>
    /\ UNCHANGED functionVars

\* Line 378, then the next iteration.
Sleep ==
    /\ pc = "sleep"
    /\ slept' = TRUE
    /\ i' = i + 1
    /\ pc' = "fetch"
    /\ content' = None
    /\ provider_data' = None
    /\ UNCHANGED <<urls, csv_header, rows, failed_urls, successful, progress,
                   summary, fatal>>
    /\ UNCHANGED functionVars

LoopEnds ==
    /\ pc = "fetch"
    /\ i = Len(urls)
    /\ pc' = "print_summary"
    /\ UNCHANGED <<urls, i, content, provider_data, csv_header, rows, failed_urls,
                   successful, progress, slept, summary, fatal>>
    /\ UNCHANGED functionVars

Counts ==
    <<[line |-> "Total URLs processed", value |-> Len(urls)],
      [line |-> "Successful extractions", value |-> successful],
      [line |-> "Failed extractions", value |-> Len(failed_urls)]>>

\* Lines 381-393 when len(urls) is not zero.
PrintSummary ==
    /\ pc = "print_summary"
    /\ Len(urls) # 0
    /\ summary' = Counts
                  \o <<[line |-> "Success rate",
                        value |-> [dividend |-> successful, divisor |-> Len(urls)]]>>
                  \o (IF failed_urls # <<>>
                      THEN <<[line |-> "Failed URLs", value |-> failed_urls]>>
                      ELSE <<>>)
    /\ pc' = "done"
    /\ UNCHANGED <<urls, i, content, provider_data, csv_header, rows, failed_urls,
                   successful, progress, slept, fatal>>
    /\ UNCHANGED functionVars

\* Lines 381-387 when len(urls) is zero: the division of line 387 raises.
PrintSummaryRaises ==
    /\ pc = "print_summary"
    /\ Len(urls) = 0
    /\ summary' = Counts
    /\ pc' = "crashed"
    /\ fatal' = "ZeroDivisionError"
    /\ UNCHANGED <<urls, i, content, provider_data, csv_header, rows, failed_urls,
                   successful, progress, slept>>
    /\ UNCHANGED functionVars

Next ==
    \/ LoadUrls
    \/ LoadUrlsExits
    \/ WriteCsvHeader
    \/ FetchFails
    \/ FetchSucceeds
    \/ ExtractFails
    \/ ExtractSucceeds
    \/ AppendToCsv
    \/ AppendToCsvRaises
    \/ Sleep
    \/ LoopEnds
    \/ PrintSummary
    \/ PrintSummaryRaises

\* ----------------------------------------- the functions taken on their own
IdleReconcile == r_in = Unset /\ r_out = Unset
IdleHeading == headings = <<>> /\ edu_heading = Unset
IdleDate == page = Unset /\ last_modified = Unset
IdlePrompt == sections = Unset /\ focused_content = Unset

HeuristicDates == {"", "2024-07-25"}

InitReconcile ==
    /\ r_in \in [response : Responses, last_modified : HeuristicDates, url : URLs]
    /\ r_out = Unset

\* extract_provider_data from the completion request to its return.
RunReconcile ==
    /\ r_out = Unset
    /\ r_out' = ReadCompletion(r_in.response, r_in.url, r_in.last_modified)
    /\ UNCHANGED <<r_in, mainVars, headingVars, dateVars, promptVars>>

InitHeading ==
    /\ headings \in HeadingLists
    /\ edu_heading = Unset

\* parse_provider_page, lines 106-115.
RunFindEduHeading ==
    /\ edu_heading = Unset
    /\ edu_heading' = FindEduHeading(headings)
    /\ UNCHANGED <<headings, mainVars, reconcileVars, dateVars, promptVars>>

InitDate ==
    /\ page \in Pages
    /\ last_modified = Unset

\* parse_provider_page, lines 160-186.
RunFindLastModified ==
    /\ last_modified = Unset
    /\ last_modified' = [value |-> FindLastModified(page)]
    /\ UNCHANGED <<page, mainVars, reconcileVars, headingVars, promptVars>>

InitPrompt ==
    /\ sections \in SectionDicts
    /\ focused_content = Unset

\* extract_provider_data, lines 197-214.
RunBuildFocusedContent ==
    /\ focused_content = Unset
    /\ focused_content' = [parts |-> BuildFocusedContent(sections)]
    /\ UNCHANGED <<sections, mainVars, reconcileVars, headingVars, dateVars>>

\* ----------------------------------------------------------- specifications
Init == InitMain /\ IdleReconcile /\ IdleHeading /\ IdleDate /\ IdlePrompt
Spec == Init /\ [][Next]_vars

ReconcileInit == InitMain /\ InitReconcile /\ IdleHeading /\ IdleDate /\ IdlePrompt
SpecReconcile == ReconcileInit /\ [][RunReconcile]_vars

HeadingInit == InitMain /\ IdleReconcile /\ InitHeading /\ IdleDate /\ IdlePrompt
SpecHeading == HeadingInit /\ [][RunFindEduHeading]_vars

DateInit == InitMain /\ IdleReconcile /\ IdleHeading /\ InitDate /\ IdlePrompt
SpecDate == DateInit /\ [][RunFindLastModified]_vars

PromptInit == InitMain /\ IdleReconcile /\ IdleHeading /\ IdleDate /\ InitPrompt
SpecPrompt == PromptInit /\ [][RunBuildFocusedContent]_vars

\* ------------------------------------------------------------------ claims
RowUrls == [k \in 1..Len(rows) |-> rows[k]["Profile URL"]]

Count(seq, x) == Cardinality({k \in DOMAIN seq : seq[k] = x})

Entries(u, success) ==
    {k \in DOMAIN progress : progress[k].url = u /\ progress[k].success = success}

\* C1 as stated: once main() has run, every URL of the input has a row or is
\* in the failed list, and never both.
C1_ExactlyOnePerUrl ==
    pc = "done" =>
        \A u \in Range(urls) : (u \in Range(RowUrls)) # (u \in Range(failed_urls))

\* C1 as amended: every entry of the input whose processing has finished has
\* one row with its URL or one entry of the failed list, never both and never
\* neither: per URL the rows are as many as its successful entries and the
\* failed-list entries as many as its failed entries; once main() has run
\* every entry of the input is accounted for.
C1_ExactlyOnePerEntry ==
    /\ Len(progress) <= Len(urls)
    /\ \A k \in DOMAIN progress : progress[k].url = urls[k]
    /\ \A u \in URLs :
           /\ Count(RowUrls, u) = Cardinality(Entries(u, TRUE))
           /\ Count(failed_urls, u) = Cardinality(Entries(u, FALSE))
    /\ pc = "done" => Len(progress) = Len(urls)

C1_Witness ==
    /\ pc = "done"
    /\ \E j, k \in DOMAIN urls :
           /\ j < k
           /\ urls[j] = urls[k]
           /\ progress[j].success # progress[k].success
           /\ urls[j] \in Range(RowUrls)
           /\ urls[j] \in Range(failed_urls)

Finished == IF pc = "sleep" THEN i + 1 ELSE i

\* C2: rows appended plus failed entries equals the number of URLs whose
\* processing has finished, at every point of the loop, and equals the number
\* of input URLs when main() ends.
C2_CountsAddUp ==
    /\ csv_header # None => Len(rows) + Len(failed_urls) = Finished
    /\ successful = Len(rows)
    /\ pc \in {"print_summary", "done"} => Len(rows) + Len(failed_urls) = Len(urls)

C2_Witness ==
    /\ pc = "done"
    /\ Len(rows) > 0
    /\ Len(failed_urls) > 0
    /\ Len(urls) = MaxUrls

IsSuccess(line) == line.success
IsFailure(line) == ~line.success
UrlsOf(lines) == [k \in 1..Len(lines) |-> lines[k].url]

\* C3: URLs are processed in input order and every row is in the file before
\* the next URL is fetched, so the Profile URLs of the rows are the successful
\* URLs of the input, in input order.
C3_RowsInInputOrder ==
    /\ \A k \in DOMAIN progress : progress[k].current = k /\ progress[k].url = urls[k]
    /\ pc \in {"fetch", "extract", "append_to_csv"} => Len(progress) = i
    /\ RowUrls = UrlsOf(SelectSeq(progress, IsSuccess))
    /\ failed_urls = UrlsOf(SelectSeq(progress, IsFailure))

C3_Witness ==
    /\ pc = "done"
    /\ urls = <<"u1", "u2", "u3">>
    /\ RowUrls = <<"u1", "u3">>
    /\ failed_urls = <<"u2">>

\* C4: a failure at any stage moves the URL to failed and the run goes on to
\* the next URL; the run never stops while a URL is still unfinished.
C4_FailureIsolated == pc = "crashed" => i = Len(urls)

ParsedObject == JsonLoads(JsonSpan(r_in.response.content))

\* C5: a heuristic date that is not empty is the record's Last Modified,
\* whatever the model gave; with an empty heuristic date the model's value is
\* kept when it gave the key, and Last Modified is "" otherwise.
C5_LastModifiedReconciled ==
    (r_out # Unset /\ r_out # None) =>
        r_out["Last Modified"] =
            IF r_in.last_modified # "" THEN r_in.last_modified
            ELSE IF "Last Modified" \in DOMAIN ParsedObject
                 THEN ParsedObject["Last Modified"]
            ELSE ""

C5_Witness ==
    /\ r_out # Unset
    /\ r_out # None
    /\ r_in.last_modified = "2024-07-25"
    /\ "Last Modified" \in DOMAIN ParsedObject
    /\ ParsedObject["Last Modified"] = "unknown"
    /\ r_out["Last Modified"] = "2024-07-25"

\* C6: once the header is written no fatal error occurs: main() reaches its
\* end and prints the summary, also for an input of zero URLs.
C6_NoFatalError == pc # "crashed"

\* C7: when a URL's processing has ended and the next URL is about to be
\* fetched, the pause has elapsed.
C7_PauseAfterEveryUrl == (pc = "fetch" /\ 0 < i /\ i < Len(urls)) => slept

Combined(h) == "education" \in h /\ ("experience" \in h \/ "certification" \in h)
EducationOnly(h) == "education" \in h /\ ~Combined(h)

\* C8: a heading with "education" and "experience" or "certification" is
\* selected whenever there is one, also after an earlier heading with only
\* "education"; without one the first heading with "education" is selected;
\* without any the result is None.
C8_CombinedHeadingPreferred ==
    edu_heading # Unset =>
        IF \E k \in DOMAIN headings : Combined(headings[k])
        THEN edu_heading # None /\ Combined(headings[edu_heading.index])
        ELSE IF \E k \in DOMAIN headings : "education" \in headings[k]
             THEN /\ edu_heading # None
                  /\ "education" \in headings[edu_heading.index]
                  /\ \A j \in 1..(edu_heading.index - 1) : "education" \notin headings[j]
        ELSE edu_heading = None

\* The date token that follows a label at token k, "" when none does: the
\* label, separators, then a date of any of the three shapes.
LabelledDateAt(text, label, k) ==
    IF ~EndsWithLabel(text[k], label) THEN ""
    ELSE LET d == SkipSeparators(text, k + 1)
         IN IF d > k + 1 /\ d <= Len(text) /\ text[d] \in Dates THEN text[d] ELSE ""

LabelMatches(text, label) ==
    {k \in DOMAIN text : LabelledDateAt(text, label, k) # ""}

FirstOf(S) == CHOOSE k \in S : \A j \in S : k <= j

\* The date the fallback scan is said to give: that of the first match of the
\* highest-priority label that matches anywhere in the text.
RECURSIVE DateByLabelPriority(_, _)
DateByLabelPriority(text, n) ==
    IF n > Len(Labels) THEN ""
    ELSE IF LabelMatches(text, Labels[n]) # {}
         THEN LabelledDateAt(text, Labels[n], FirstOf(LabelMatches(text, Labels[n])))
    ELSE DateByLabelPriority(text, n + 1)

\* C9: when the footer gave no date, the result is the date of the
\* highest-priority label that is followed by a date of any of the three
\* shapes, and "" when no label is.
C9_HighestPriorityLabelWins ==
    (last_modified # Unset /\ FirstDate(page.footer) = "") =>
        last_modified.value = DateByLabelPriority(FullPageText(page), 1)

\* The most the page content could hold if every part of it were held to the
\* limit of the page: the banners, the separators and content_limit characters.
PageBudget ==
    edu_banner_len + details_banner_len + full_banner_len
    + section_gap_len + section_gap_len + content_limit

\* C10: the page content placed in the prompt never exceeds the budget,
\* whatever the lengths of the sections.
C10_ContentWithinBudget ==
    focused_content # Unset => TotalLen(focused_content.parts) <= PageBudget

============================================================================
